---- MODULE Spec2Model ----
(***************************************************************************)
(* A model of the saleor vendor plugin: VendorCreate.clean_input           *)
(* (vendor/graphql/mutations.py), the Vendor table and its column          *)
(* constraints (vendor/models.py), the VendorCreate / VendorUpdate /       *)
(* VendorDelete mutations that write it, the mutations on the vendor's     *)
(* dependent entities (billing information, attachments, logo and header   *)
(* image, product catalogue, commissions, transactions), the search        *)
(* filters (vendor/graphql/filters.py), the vendors query                  *)
(* (vendor/graphql/schema.py) and the plugin's webhook (vendor/plugin.py). *)
(*                                                                         *)
(* Strings the code inspects character by character (the identity          *)
(* documents, the VAT number, the names, the slug) are sequences of        *)
(* one-character strings.  Python's None is the value None below.          *)
(***************************************************************************)
EXTENDS Integers, Sequences, FiniteSets, TLC

\* ------------------------------------------------------------------ bounds

\* Longest identity-document / VAT string drawn as an input.
MaxLen == 2

\* Number of rows the Vendor table is ever given (primary keys 1..MaxVendors).
MaxVendors == 2

\* ------------------------------------------------------------- data domains

None == <<"null">>

\* The characters inputs are made of: a digit and a letter.
Chars == {"1", "a"}

RECURSIVE StrUpTo(_)
StrUpTo(n) ==
    IF n = 0 THEN {<<>>}
    ELSE LET shorter == StrUpTo(n - 1)
         IN  shorter \cup {Append(s, c) : s \in {t \in shorter : Len(t) = n - 1}, c \in Chars}

Str == StrUpTo(MaxLen)

\* graphene.String(required=False): absent/null or a string.
OptStr == {None} \cup Str

\* Python truthiness of an optional string: None and "" are falsy.
Truthy(s) == s # None /\ s # <<>>

COMPANY == 1
MAROOF == 2
RegistrationType == {COMPANY, MAROOF}

\* E-mail addresses: two well-formed ones, a malformed one, the empty string.
Emails == {"a@x.co", "b@x.co", "not-an-email", ""}
WellFormedEmails == {"a@x.co", "b@x.co"}

\* Phone numbers: valid ones, one that parses but is no valid number, and
\* one that does not parse.
Phones == {"+966500000001", "+966500000002", "+9661", "abc"}
ParseablePhones == {"+966500000001", "+966500000002", "+9661"}
ValidPhones == {"+966500000001", "+966500000002"}

\* ------------------------------------------------------------ pure helpers

IsDigit(c) == c \in {"0", "1", "2", "3", "4", "5", "6", "7", "8", "9"}

\* re.compile("[0-9]+").match(s): the greedy match of one or more digits
\* anchored at the START of s only; the length matched, 0 for no match.
RECURSIVE numbers_only(_)
numbers_only(s) ==
    IF s = <<>> \/ ~IsDigit(Head(s)) THEN 0 ELSE 1 + numbers_only(Tail(s))

\* The match object is truthy, None is falsy.
is_numbers_only(s) == numbers_only(s) >= 1

\* What "contains only numbers" means: every character is a digit.
AllDigits(s) == \A i \in 1..Len(s) : IsDigit(s[i])

\* django.core.validators.validate_email raises ValidationError.
validate_email_raises(email) == email \notin WellFormedEmails

\* PhoneNumber.from_string(...) raises NumberParseException.
from_string_raises(phone) == phone \notin ParseablePhones


\* ------------------------------------------------------------------- slugs

\* The names vendors are created with in the store specification; "a" and
\* "A" are different brand names that slugify to the same slug.
BrandNames == {<<"a">>, <<"A">>}

Lower(c) == IF c = "A" THEN "a" ELSE IF c = "B" THEN "b" ELSE c

\* django.utils.text.slugify on letters and digits: lower-casing; a value
\* with nothing left gets the host's default "-".
slugify(value) ==
    IF value = <<>> THEN <<"-">> ELSE [i \in 1..Len(value) |-> Lower(value[i])]

ExtensionDigits == <<"1", "2", "3", "4", "5", "6", "7", "8", "9">>

\* prepare_unique_slug: slug, slug-2, slug-3, ... the first one not taken.
RECURSIVE prepare_unique_slug(_, _, _)
prepare_unique_slug(slug, slug_values, extension) ==
    LET unique_slug == IF extension = 1 THEN slug
                       ELSE slug \o <<"-", ExtensionDigits[extension]>>
    IN  IF unique_slug \in slug_values
        THEN prepare_unique_slug(slug, slug_values, extension + 1)
        ELSE unique_slug

generate_unique_slug(slugable_value, store) ==
    prepare_unique_slug(slugify(slugable_value), {v.slug : v \in store}, 1)

\* validate_slug_and_generate_if_needed(instance, "brand_name", cleaned_input)
\* for an instance that is being added: a falsy slug is replaced by one
\* generated from brand_name; nothing is raised on this path.
validate_slug_and_generate_if_needed(data, store) ==
    IF ~Truthy(data.slug)
    THEN [data EXCEPT !.slug = generate_unique_slug(data.brand_name, store)]
    ELSE data

\* ------------------------------------------------------ VendorCreate checks

\* One entry of the errors dict: the code the ValidationError was built
\* with, and whether what was stored under the key is a 1-tuple holding the
\* ValidationError instead of the ValidationError itself.
Err(code) == [code |-> code, tuple |-> FALSE]
ErrTuple(code) == [code |-> code, tuple |-> TRUE]

NoErrors == <<>>

brand_name_check(data, store) ==
    IF Len(data.brand_name) = 0
    THEN "brand_name" :> Err("INVALID_BRAND_NAME")
    ELSE IF \E v \in store : v.brand_name = data.brand_name
         THEN "brand_name" :> Err("EXISTING_VENDOR")
         ELSE NoErrors

first_name_check(data) ==
    IF Len(data.first_name) = 0
    THEN "first_name" :> Err("INVALID_FIRST_NAME") ELSE NoErrors

last_name_check(data) ==
    IF Len(data.last_name) = 0
    THEN "last_name" :> ErrTuple("INVALID_LAST_NAME") ELSE NoErrors

email_check(data) ==
    IF data.email # "" /\ validate_email_raises(data.email)
    THEN "email" :> Err("INVALID_EMAIL") ELSE NoErrors

phone_number_check_inverted(data) ==
    IF ~from_string_raises(data.phone_number)
    THEN "phone_number" :> Err("INVALID_PHONE_NUMBER") ELSE NoErrors

phone_number_check(data) ==
    IF from_string_raises(data.phone_number)
    THEN "phone_number" :> Err("INVALID_PHONE_NUMBER") ELSE NoErrors

\* The two identity-document tests: each raises a ValidationError of its own.
only_one_allowed_raise_both_only(residence_id, national_id) ==
    Truthy(residence_id) /\ Truthy(national_id)

only_one_allowed_raise(residence_id, national_id) ==
    \/ Truthy(residence_id) /\ Truthy(national_id)
    \/ ~Truthy(residence_id) /\ ~Truthy(national_id)

residence_id_check(data) ==
    IF Truthy(data.residence_id) /\ ~is_numbers_only(data.residence_id)
    THEN "residence_id" :> Err("INVALID_RESIDENCE_ID") ELSE NoErrors

national_id_check(data) ==
    IF Truthy(data.national_id) /\ ~is_numbers_only(data.national_id)
    THEN "national_id" :> Err("INVALID_NATIONAL_ID") ELSE NoErrors

vat_number_check(data) ==
    IF data.registration_type = COMPANY
    THEN IF ~Truthy(data.vat_number)
         THEN "vat_number" :> Err("MISSING_VAT")
         ELSE IF ~is_numbers_only(data.vat_number)
              THEN "vat_number" :> Err("INVALID_VAT")
              ELSE NoErrors
    ELSE NoErrors

registration_number_check(data) ==
    IF Len(data.registration_number) = 0
    THEN "registration_number" :> Err("INVALID_REGISTRATION_NUMBER") ELSE NoErrors

\* What a request ended with.  kind: "none" (no error), "single" (a
\* ValidationError with a code and no field), "dict" (ValidationError(errors)),
\* "model" (full_clean rejected the instance), "integrity" (the database
\* rejected the row).  errors: the fields the error reports.  accumulated:
\* the local errors dict of clean_input as it was when clean_input ended.
NoError == [kind |-> "none", code |-> "", errors |-> NoErrors, accumulated |-> NoErrors]

\* VendorCreate.clean_input: [error, cleaned].  The checks run in source
\* order; the identity-document tests raise at once, with whatever the
\* checks before them have put into errors left behind.
clean_input(data, store) ==
    LET before == brand_name_check(data, store) @@ first_name_check(data)
                  @@ last_name_check(data) @@ email_check(data)
                  @@ phone_number_check(data)
    IN  IF only_one_allowed_raise(data.residence_id, data.national_id)
        THEN [error |-> [kind |-> "single", code |-> "ONLY_ONE_ALLOWED",
                         errors |-> NoErrors, accumulated |-> before],
              cleaned |-> data]
        ELSE LET cleaned_input == validate_slug_and_generate_if_needed(data, store)
                 errors == before @@ residence_id_check(data)
                           @@ national_id_check(data) @@ vat_number_check(data)
                           @@ registration_number_check(data)
             IN  IF DOMAIN errors # {}
                 THEN [error |-> [kind |-> "dict", code |-> "",
                                  errors |-> errors, accumulated |-> errors],
                       cleaned |-> data]
                 ELSE [error |-> NoError, cleaned |-> cleaned_input]

\* ------------------------------------------------------- the Vendor table

\* The columns of Vendor the mutations below read or write.
Fields == {"brand_name", "first_name", "last_name", "email", "phone_number",
           "residence_id", "national_id", "registration_type", "vat_number",
           "registration_number", "slug"}

UniqueColumns_without_brand_name == {"slug", "email"}

UniqueColumns_without_email == {"brand_name", "slug"}

\* Columns declared unique=True.
UniqueColumns == {"brand_name", "slug", "email"}

\* Character columns declared without blank=True.
RequiredText == {"brand_name", "first_name", "last_name", "slug", "registration_number"}

\* ModelMutation.construct_instance: every field present in the cleaned
\* input is written to the instance; None for a column that is not nullable
\* becomes the column's default (the empty string for the text columns).
construct_instance(instance, cleaned_data) ==
    [f \in DOMAIN instance |->
        IF f \in DOMAIN cleaned_data
        THEN IF f \in RequiredText /\ cleaned_data[f] = None THEN <<>> ELSE cleaned_data[f]
        ELSE instance[f]]

\* A new, unsaved Vendor built from the cleaned create input.
new_instance(pk, cleaned_data) ==
    [f \in Fields \cup {"pk"} |-> IF f = "pk" THEN pk ELSE cleaned_data[f]]

\* Model.full_clean as ModelMutation.clean_instance runs it: the fields it
\* reports, each with Django's code for the failure.  clean_fields: blank values of columns that do not allow them,
\* the e-mail validator, validate_possible_number on the phone number;
\* validate_unique: the unique columns, against the other rows.
full_clean(instance, others) ==
    LET blank == {f \in RequiredText : instance[f] = <<>>}
                 \cup (IF instance.email = "" THEN {"email"} ELSE {})
        invalid == (IF instance.email # "" /\ validate_email_raises(instance.email)
                    THEN {"email"} ELSE {})
                   \cup (IF instance.phone_number \notin ValidPhones
                         THEN {"phone_number"} ELSE {})
        unique == {f \in UniqueColumns \ (blank \cup invalid) :
                      \E o \in others : o[f] = instance[f]}
    IN  [f \in blank \cup invalid \cup unique |->
            Err(IF f \in blank THEN "blank" ELSE IF f \in invalid THEN "invalid" ELSE "unique")]

\* The unique indexes of the table: what INSERT and UPDATE enforce.
unique_violation(row, others) ==
    \E f \in UniqueColumns : \E o \in others : o[f] = row[f]

\* The ValidationError of full_clean: its entries carry Django's own codes
\* ("blank", "invalid", "unique"), none of VendorErrorCode.
ModelError(errors) ==
    [kind |-> "model", code |-> "", errors |-> errors, accumulated |-> NoErrors]

IntegrityError ==
    [kind |-> "integrity", code |-> "", errors |-> NoErrors, accumulated |-> NoErrors]

\* ------------------------------------------------------------------- state

Clients == {"c1", "c2"}

VARIABLES
    vendors,    \* the rows of the Vendor table
    next_pk,    \* the next primary key the table hands out
    req         \* per client: the request in flight or its outcome

VARIABLES
    billing_infos,    \* the rows of the BillingInfo table
    attachments,      \* the rows of the Attachment table
    commissions,      \* the rows of the Commission table
    transactions,     \* the rows of the Transaction table
    vendor_products,  \* the rows of the Vendor.products through table
    vendor_images,    \* per vendor pk: the names of the logo and header_image files
    result            \* the last sub-entity mutation or query and how it ended

\* The tables of the vendor's dependent entities and the last call on them.
entities == <<billing_infos, attachments, commissions, transactions,
              vendor_products, vendor_images, result>>

vars == <<vendors, next_pk, req, billing_infos, attachments, commissions,
          transactions, vendor_products, vendor_images, result>>

\* A well-formed create input, and the vendor it creates.
ValidInput ==
    [brand_name |-> <<"a">>, first_name |-> <<"a">>, last_name |-> <<"a">>,
     email |-> "a@x.co", phone_number |-> "+966500000001",
     residence_id |-> <<"1">>, national_id |-> None,
     registration_type |-> MAROOF, vat_number |-> None,
     registration_number |-> <<"1">>, slug |-> None]

\* A request: pc is "idle", "validated" (clean_input and clean_instance
\* passed, the save is still to come), "done" or "failed"; data is the
\* input as received, cleaned what clean_input returned.
Idle == [pc |-> "idle", op |-> "", data |-> <<>>, cleaned |-> <<>>, error |-> NoError]

InFlight(c) == req[c].pc = "validated"

\* What a finished request leaves behind: the operation, the input and the error.
Outcome(op, data, error) ==
    [pc |-> IF error.kind = "none" THEN "done" ELSE "failed",
     op |-> op, data |-> data, cleaned |-> <<>>, error |-> error]

\* --------------------------------------------------------------- global IDs

\* graphene.Node.to_global_id(type, id): the base64 text of "type:id".  A
\* global ID is <<"b64", type, id>>; any other text a client may send, which
\* does not decode to "type:id", is <<"raw", text, 0>>.
to_global_id(type, id) == <<"b64", type, id>>

Undecodable(text) == <<"raw", text, 0>>

\* from_global_id_or_error(global_id, only_type, raise_error): the type and
\* the id the text decodes to.  Text that does not decode raises GraphQLError;
\* an ID of another type raises it when raise_error is set and otherwise
\* comes back with the id None (pk 0 here, which no row has).
from_global_id_or_error(global_id, only_type, raise_error) ==
    IF global_id[1] # "b64"
    THEN [raised |-> TRUE, type |-> "", pk |-> 0]
    ELSE IF global_id[2] # only_type
         THEN [raised |-> raise_error, type |-> global_id[2], pk |-> 0]
         ELSE [raised |-> FALSE, type |-> global_id[2], pk |-> global_id[3]]

\* ValidationError({field: ValidationError(..., code=code)}).
FieldError(field, code) ==
    [kind |-> "dict", code |-> "", errors |-> field :> Err(code), accumulated |-> NoErrors]

\* An exception that is no ValidationError (KeyError, TypeError, URLError,
\* DoesNotExist, GraphQLError): the mutation does not turn it into an entry
\* of its errors list.
Exception(name) ==
    [kind |-> "exception", code |-> name, errors |-> NoErrors, accumulated |-> NoErrors]

\* The row a failed lookup stands for.
NoNode == [pk |-> 0]

\* An ID argument that is empty or left out: "if not node_id: return None".
EmptyId == <<"empty", "", 0>>

\* BaseMutation.get_node_or_error(info, node_id, field, only_type) on the
\* table of only_type's model: [error, node].
get_node_or_error(node_id, field, only_type, table) ==
    LET r == from_global_id_or_error(node_id, only_type, TRUE)
    IN  IF node_id = EmptyId
        THEN [error |-> NoError, node |-> NoNode]
        ELSE IF r.raised
        THEN [error |-> FieldError(field, "graphql_error"), node |-> NoNode]
        ELSE IF \E n \in table : n.pk = r.pk
             THEN [error |-> NoError, node |-> CHOOSE n \in table : n.pk = r.pk]
             ELSE [error |-> FieldError(field, "not_found"), node |-> NoNode]

\* The host's Product, User and Payment tables.
Products == {[pk |-> 1], [pk |-> 2]}
Users == {[pk |-> 1], [pk |-> 2]}
Payments == {[pk |-> 1], [pk |-> 2]}

\* The dependent entities as they are stored.
Stored ==
    [billing_infos |-> billing_infos, attachments |-> attachments,
     commissions |-> commissions, transactions |-> transactions,
     vendor_products |-> vendor_products, vendor_images |-> vendor_images]

\* How a call on a dependent entity ended: the operation and its arguments,
\* the error, the object returned, what was stored before the call, and the
\* calls made on the plugin manager.
Result(op, args, error, returned, before, calls) ==
    [op |-> op, args |-> args, error |-> error, returned |-> returned,
     before |-> before, calls |-> calls]

NoResult == Result("", <<>>, NoError, NoNode, Stored, <<>>)

Succeeded == result.error.kind = "none"

\* ImageField with no file: the empty name.
NoImages == [logo |-> <<>>, header_image |-> <<>>]

\* No dependent entity stored and no call made yet.
NoEntities ==
    /\ billing_infos = {}
    /\ attachments = {}
    /\ commissions = {}
    /\ transactions = {}
    /\ vendor_products = {}
    /\ vendor_images = [pk \in 1..MaxVendors |-> NoImages]
    /\ result = NoResult

\* ----------------------------------------------------------- VendorCreate

\* ModelMutation.perform_mutation up to the save: cls.clean_input(info,
\* instance, data) on a new instance, construct_instance, clean_instance.
VendorCreate_clean(c, data) ==
    /\ ~InFlight(c)
    /\ next_pk <= MaxVendors
    /\ LET r == clean_input(data, vendors)
           bad == full_clean(new_instance(0, r.cleaned), vendors)
       IN  req' = [req EXCEPT ![c] =
                      IF r.error.kind # "none" THEN Outcome("create", data, r.error)
                      ELSE IF DOMAIN bad # {} THEN Outcome("create", data, ModelError(bad))
                      ELSE [pc |-> "validated", op |-> "create", data |-> data,
                            cleaned |-> r.cleaned, error |-> NoError]]
    /\ UNCHANGED <<vendors, next_pk>>
    /\ UNCHANGED entities

\* cls.save(info, instance, cleaned_input): the INSERT.
VendorCreate_save(c) ==
    /\ req[c].pc = "validated"
    /\ next_pk <= MaxVendors
    /\ LET row == new_instance(next_pk, req[c].cleaned)
       IN  IF unique_violation(row, vendors)
           THEN /\ req' = [req EXCEPT ![c] = Outcome("create", req[c].data, IntegrityError)]
                /\ UNCHANGED <<vendors, next_pk>>
           ELSE /\ vendors' = vendors \cup {row}
                /\ next_pk' = next_pk + 1
                /\ req' = [req EXCEPT ![c] = Outcome("create", req[c].data, NoError)]
    /\ UNCHANGED entities

\* ----------------------------------------------------------- VendorUpdate

\* VendorUpdate defines no clean_input of its own: the inherited
\* perform_mutation looks the vendor up, writes the input's fields to it,
\* runs full_clean and saves.
VendorUpdate(c, pk, input) ==
    /\ ~InFlight(c)
    /\ \E old \in vendors :
          /\ old.pk = pk
          /\ LET instance == construct_instance(old, input)
                 others == vendors \ {old}
                 bad == full_clean(instance, others)
                 error == IF DOMAIN bad # {} THEN ModelError(bad)
                          ELSE IF unique_violation(instance, others) THEN IntegrityError
                          ELSE NoError
             IN  /\ vendors' = IF error.kind = "none"
                               THEN others \cup {instance} ELSE vendors
                 /\ req' = [req EXCEPT ![c] = Outcome("update", input, error)]
    /\ UNCHANGED next_pk
    /\ UNCHANGED entities

\* ----------------------------------------------------------- VendorDelete

on_delete_DO_NOTHING(table, vendor_pk) == table

\* on_delete=models.CASCADE on a foreign key to Vendor: the rows of the table
\* whose vendor column holds the deleted vendor go with it.  A NULL vendor
\* (0) is no vendor's.
on_delete_CASCADE(table, vendor_pk) == {r \in table : r.vendor # vendor_pk}

\* The rows of the products through table go with either side of them.
Vendor_products_clear(table, vendor_pk) == {r \in table : r[1] # vendor_pk}

\* Model.delete() on a vendor.  Django collects
\* the rows that reference the vendor through a CASCADE foreign key
\* (BillingInfo, Attachment, Transaction, Commission) and the rows of the
\* products through table, and deletes them with the vendor row in one
\* transaction; the image columns are part of the vendor row.
Vendor_delete(pk) ==
    /\ vendors' = {v \in vendors : v.pk # pk}
    /\ billing_infos' = on_delete_CASCADE(billing_infos, pk)
    /\ attachments' = on_delete_CASCADE(attachments, pk)
    /\ transactions' = on_delete_CASCADE(transactions, pk)
    /\ commissions' = on_delete_CASCADE(commissions, pk)
    /\ vendor_products' = Vendor_products_clear(vendor_products, pk)
    /\ vendor_images' = [vendor_images EXCEPT ![pk] = NoImages]

\* VendorDelete: the inherited perform_mutation, on a vendor that is stored.
VendorDelete(c, pk) ==
    /\ ~InFlight(c)
    /\ \E old \in vendors : old.pk = pk
    /\ Vendor_delete(pk)
    /\ req' = [req EXCEPT ![c] = Outcome("delete", <<>>, NoError)]
    /\ UNCHANGED <<next_pk, result>>

\* ------------------------------------------------- the store specification

\* Create inputs that differ in the columns the table keeps unique and in
\* the phone number.
CreateInputs ==
    {[ValidInput EXCEPT !.brand_name = b, !.email = e, !.slug = s, !.phone_number = p] :
        b \in BrandNames, e \in WellFormedEmails, s \in {None, <<"a">>}, p \in {"+966500000001"}}

\* VendorUpdateInput: brand_name, first_name and last_name are required;
\* here at most one of e-mail and slug comes with them.
UpdateInputs ==
    {[brand_name |-> b, first_name |-> <<"a">>, last_name |-> <<"a">>] @@ opt :
        b \in BrandNames,
        opt \in {NoErrors} \cup {"email" :> e : e \in WellFormedEmails}
                \cup {"slug" :> s : s \in {<<>>, <<"a">>}}}

Init ==
    /\ vendors = {}
    /\ next_pk = 1
    /\ req = [c \in Clients |-> Idle]
    /\ NoEntities

Next ==
    \/ \E c \in Clients, data \in CreateInputs : VendorCreate_clean(c, data)
    \/ \E c \in Clients : VendorCreate_save(c)
    \/ \E c \in Clients, pk \in 1..MaxVendors, input \in UpdateInputs : VendorUpdate(c, pk, input)
    \/ \E c \in Clients, pk \in 1..MaxVendors : VendorDelete(c, pk)

Spec == Init /\ [][Next]_vars


\* -------------------------------------------- the validation specification

\* The vendor ValidInput creates in an empty table.
ExistingVendor == new_instance(1, validate_slug_and_generate_if_needed(ValidInput, {}))

\* A create input; the slug is left to be generated.
CreateInput(b, fn, ln, e, p, r, n, t, v, rn) ==
    [brand_name |-> b, first_name |-> fn, last_name |-> ln, email |-> e,
     phone_number |-> p, residence_id |-> r, national_id |-> n,
     registration_type |-> t, vat_number |-> v, registration_number |-> rn,
     slug |-> None]

\* One request with any combination of field values VendorCreate.clean_input
\* tells apart: an empty, a taken and a free brand name; empty and non-empty
\* names; an empty, a malformed and a well-formed e-mail; a phone number
\* that does not parse, one that parses and is not valid, a valid one; every
\* optional string up to MaxLen for the identity documents and the VAT number.
VendorCreate_any ==
    /\ req["c1"].pc = "idle"
    /\ \E b \in {<<>>, <<"a">>, <<"A">>}, fn \in {<<>>, <<"a">>}, ln \in {<<>>, <<"a">>},
          e \in {"", "not-an-email", "b@x.co"}, p \in {"abc", "+9661", "+966500000001"},
          r \in OptStr, n \in OptStr, t \in RegistrationType, v \in OptStr,
          rn \in {<<>>, <<"1">>} :
          VendorCreate_clean("c1", CreateInput(b, fn, ln, e, p, r, n, t, v, rn))

InitValidate ==
    /\ vendors = {ExistingVendor}
    /\ next_pk = 2
    /\ req = [c \in Clients |-> Idle]
    /\ NoEntities

NextValidate ==
    \/ VendorCreate_any
    \/ VendorCreate_save("c1")

SpecValidate == InitValidate /\ [][NextValidate]_vars

\* ------------------------------------------------ the update specification

\* Updates of one vendor that each set one of the identity documents, the
\* VAT number or the registration type (or none of them).
IdUpdateInputs ==
    {[brand_name |-> <<"a">>, first_name |-> <<"a">>, last_name |-> <<"a">>] @@ opt :
        opt \in {NoErrors} \cup {"residence_id" :> x : x \in OptStr}
                \cup {"national_id" :> x : x \in OptStr}
                \cup {"vat_number" :> x : x \in OptStr}
                \cup {"registration_type" :> t : t \in RegistrationType}}

NextUpdate ==
    \E input \in IdUpdateInputs : VendorUpdate("c1", 1, input)

SpecUpdate == InitValidate /\ [][NextUpdate]_vars


\* ------------------------------------------------------------- BillingInfo

\* Rows the BillingInfo table is ever given.
MaxBillingInfos == 2

\* The columns of BillingInfo a client supplies.
BillingFields == {"iban", "bank_name", "account_holder_name", "bank_address",
                  "bank_country", "bank_city", "bank_zipcode", "bank_area"}

\* BillingInfoCreate.clean_input: the errors dict it raises, if any.  The
\* bank_name entry is stored as a 1-tuple.
BillingInfoCreate_clean_input(input) ==
    LET validation_errors ==
            (IF Len(input.iban) = 0
             THEN "iban" :> Err("INVALID_IBAN") ELSE NoErrors)
            @@ (IF Len(input.bank_name) = 0
                THEN "bank_name" :> ErrTuple("INVALID_BANK_NAME") ELSE NoErrors)
    IN  IF DOMAIN validation_errors # {}
        THEN [kind |-> "dict", code |-> "", errors |-> validation_errors,
              accumulated |-> validation_errors]
        ELSE NoError

\* The primary key an INSERT into the table gets from its sequence: above
\* every key that is stored.
next_id(table) ==
    IF table = {} THEN 1
    ELSE (CHOOSE r \in table : \A o \in table : o.pk <= r.pk).pk + 1

\* models.BillingInfo.objects.create(**input, vendor=vendor): the row that is
\* inserted.  Columns the input leaves out get NULL; nothing is validated.
BillingInfo_create(pk, input, vendor) ==
    [f \in BillingFields \cup {"pk", "vendor"} |->
        IF f = "pk" THEN pk
        ELSE IF f = "vendor" THEN vendor.pk
        ELSE IF f \in DOMAIN input THEN input[f] ELSE None]

\* BillingInfoCreate.perform_mutation.  It replaces the inherited
\* perform_mutation, the only caller of clean_input: the vendor is looked up
\* and the row is created from the input as it came.
BillingInfoCreate(vendor_id, input) ==
    /\ next_id(billing_infos) <= MaxBillingInfos
    /\ LET args == [vendor_id |-> vendor_id, input |-> input]
           vendor == get_node_or_error(vendor_id, "id", "Vendor", vendors)
           billing_info ==
               BillingInfo_create(next_id(billing_infos), input, vendor.node)
       IN  IF vendor.error.kind # "none"
           THEN /\ result' = Result("BillingInfoCreate", args, vendor.error,
                                    NoNode, Stored, <<>>)
                /\ UNCHANGED billing_infos
           ELSE /\ billing_infos' = billing_infos \cup {billing_info}
                /\ result' = Result("BillingInfoCreate", args, NoError,
                                    billing_info, Stored, <<>>)
    /\ UNCHANGED <<vendors, next_pk, req, attachments, commissions, transactions,
                   vendor_products, vendor_images>>

\* for k, v in data.items(): billing_info.k = v -- every pass of the loop
\* assigns the one instance attribute named "k"; data holds "id" and "input".
BillingInfoUpdate_assign(billing_info, data) ==
    ("k" :> data.input) @@ billing_info

\* Model.save(): the UPDATE writes the columns of the instance.
BillingInfo_save(billing_info) ==
    [f \in BillingFields \cup {"pk", "vendor"} |-> billing_info[f]]

\* BillingInfoUpdate.perform_mutation.
BillingInfoUpdate(id, input) ==
    /\ LET data == [id |-> id, input |-> input]
           r == from_global_id_or_error(id, "Billing", FALSE)
       IN  IF r.raised
           THEN /\ result' = Result("BillingInfoUpdate", data, Exception("GraphQLError"),
                                    NoNode, Stored, <<>>)
                /\ UNCHANGED billing_infos
           ELSE IF ~\E b \in billing_infos : b.pk = r.pk
           THEN /\ result' = Result("BillingInfoUpdate", data, Exception("DoesNotExist"),
                                    NoNode, Stored, <<>>)
                /\ UNCHANGED billing_infos
           ELSE LET old == CHOOSE b \in billing_infos : b.pk = r.pk
                    billing_info == BillingInfoUpdate_assign(old, data)
                    saved == BillingInfo_save(billing_info)
                IN  /\ billing_infos' = (billing_infos \ {old}) \cup {saved}
                    /\ result' = Result("BillingInfoUpdate", data, NoError,
                                        saved, Stored, <<>>)
    /\ UNCHANGED <<vendors, next_pk, req, attachments, commissions, transactions,
                   vendor_products, vendor_images>>

\* ----------------------------------------------- the billing specification

\* IDs a client may send where a vendor is expected: the stored vendor, a
\* vendor that does not exist, an ID of another type, text that is no ID.
VendorIds == {to_global_id("Vendor", 1), to_global_id("Vendor", 2),
              to_global_id("Product", 1), Undecodable("vendor_id")}

BillingIds == {to_global_id("Billing", 1), to_global_id("Billing", 2),
               to_global_id("Vendor", 1), Undecodable("id")}

\* BillingInfoCreateInput: iban, bank_name, bank_address and bank_country
\* are required; iban and bank_name may be empty strings.
BillingCreateInputs ==
    {[iban |-> i, bank_name |-> b, bank_address |-> <<"a">>, bank_country |-> <<"a">>] @@ opt :
        i \in {<<>>, <<"1">>}, b \in {<<>>, <<"a">>},
        opt \in {NoErrors, "bank_city" :> <<"a">>}}

\* BillingInfoUpdateInput: every field is optional; here none, one or two
\* of them are supplied.
BillingUpdateInputs ==
    {NoErrors} \cup {f :> v : f \in BillingFields, v \in {<<"1">>, <<"a">>}}
    \cup {("iban" :> <<"1">>) @@ ("bank_name" :> v) : v \in {<<"1">>, <<"a">>}}

NextBilling ==
    \/ \E vendor_id \in VendorIds, input \in BillingCreateInputs :
          BillingInfoCreate(vendor_id, input)
    \/ \E id \in BillingIds, input \in BillingUpdateInputs :
          BillingInfoUpdate(id, input)

SpecBilling == InitValidate /\ [][NextBilling]_vars

\* -------------------------------------------------------------- Attachment

\* Rows the Attachment table is ever given.
MaxAttachments == 2

\* Uploaded files.
Files == {"f1", "f2"}

\* models.Attachment.objects.create(vendor=vendor, file=file).
Attachment_create(pk, vendor, file) == [pk |-> pk, vendor |-> vendor.pk, file |-> file]

\* VendorAddAttachment.perform_mutation(_root, info, vendor_id, file).  The
\* node ID handed to get_node_or_error is the string literal "vendor_id",
\* not the argument vendor_id.
VendorAddAttachment(vendor_id, file) ==
    /\ next_id(attachments) <= MaxAttachments
    /\ LET args == [vendor_id |-> vendor_id, file |-> file]
           vendor == get_node_or_error(Undecodable("vendor_id"), "id", "Vendor", vendors)
           attachment == Attachment_create(next_id(attachments), vendor.node, file)
       IN  IF vendor.error.kind # "none"
           THEN /\ result' = Result("VendorAddAttachment", args, vendor.error,
                                    NoNode, Stored, <<>>)
                /\ UNCHANGED attachments
           ELSE /\ attachments' = attachments \cup {attachment}
                /\ result' = Result("VendorAddAttachment", args, NoError,
                                    attachment, Stored, <<>>)
    /\ UNCHANGED <<vendors, next_pk, req, billing_infos, commissions, transactions,
                   vendor_products, vendor_images>>

\* ------------------------------------------------- logo and header image

\* Image URLs as <<name, extension>> of the last path segment.
Urls == {<<"a", ".png">>, <<"a", ".pdf">>, <<"a", "">>}

\* What the HEAD request of is_image_url may meet: urlopen raises, the
\* response has no Content-Type header, or it has one of these two.
Heads == {"URLError", "no Content-Type", "image/png", "text/html"}

\* Content types that contain "image".
ImageContentTypes == {"image/png"}

\* What requests.get may do: return a response, or raise.
Downloads == {"ok", "ConnectionError"}

\* secrets.token_hex(nbytes=4).
Hashes == {"h1", "h2"}

\* mimetypes.guess_type(url)[0]: by the extension; None for an unknown one.
guess_type(url) ==
    IF url[2] = ".png" THEN <<"image/png">>
    ELSE IF url[2] = ".pdf" THEN <<"application/pdf">>
    ELSE None

\* get_filename_from_url: f"{name}_{hash}{format}".
get_filename_from_url(url, hash) == <<url[1], "_", hash, url[2]>>

\* is_image_url(url): [raised, value].  urlopen's error is not caught; a
\* response without Content-Type makes `"image" in None` raise TypeError;
\* otherwise True for an image content type, and else whether
\* mimetypes.guess_type knows any type for the URL.
is_image_url(url, head) ==
    IF head = "URLError" THEN [raised |-> "URLError", value |-> FALSE]
    ELSE IF head = "no Content-Type" THEN [raised |-> "TypeError", value |-> FALSE]
    ELSE IF head \in ImageContentTypes THEN [raised |-> "", value |-> TRUE]
    ELSE [raised |-> "", value |-> guess_type(url) # None]

\* A call of is_image_url(url) whose HEAD request is answered with head: the
\* value returned, or the exception that leaves the function.
IsImageUrl(url, head) ==
    /\ LET vetted == is_image_url(url, head)
       IN  result' = Result("is_image_url", [image_url |-> url, head |-> head],
                            IF vetted.raised # "" THEN Exception(vetted.raised) ELSE NoError,
                            [value |-> vetted.value], Stored, <<>>)
    /\ UNCHANGED <<vendors, next_pk, req, billing_infos, attachments, commissions,
                   transactions, vendor_products, vendor_images>>

\* upload_image(image_data, image_name): File(image_data.raw, image_name),
\* which is truthy for a non-empty name.
upload_image(image_name) == image_name

\* The body VendorUpdateLogo.perform_mutation and
\* VendorUpdateHeader.perform_mutation share; column is the ImageField set.
VendorUpdateImage(op, column, id, image_url, head, download, hash) ==
    /\ LET args == [id |-> id, image_url |-> image_url, head |-> head, download |-> download]
           vendor == get_node_or_error(id, "id", "Vendor", vendors)
           vetted == is_image_url(image_url, head)
           image_file == upload_image(get_filename_from_url(image_url, hash))
           invalid == FieldError("image_url", "INVALID_IMAGE_URL")
       IN  IF vendor.error.kind # "none"
           THEN /\ result' = Result(op, args, vendor.error, NoNode, Stored, <<>>)
                /\ UNCHANGED vendor_images
           ELSE IF vetted.raised # ""
           THEN /\ result' = Result(op, args, Exception(vetted.raised), NoNode, Stored, <<>>)
                /\ UNCHANGED vendor_images
           ELSE IF vetted.value /\ download = "ok"
           THEN /\ vendor_images' = [vendor_images EXCEPT ![vendor.node.pk][column] = image_file]
                /\ result' = Result(op, args, NoError, vendor.node, Stored, <<>>)
           ELSE /\ result' = Result(op, args, invalid, NoNode, Stored, <<>>)
                /\ UNCHANGED vendor_images
    /\ UNCHANGED <<vendors, next_pk, req, billing_infos, attachments, commissions,
                   transactions, vendor_products>>

VendorUpdateLogo(id, image_url, head, download, hash) ==
    VendorUpdateImage("VendorUpdateLogo", "logo", id, image_url, head, download, hash)

VendorUpdateHeader(id, image_url, head, download, hash) ==
    VendorUpdateImage("VendorUpdateHeader", "header_image", id, image_url, head, download, hash)

\* ------------------------------------------------------ product catalogue

\* vendor.products.all() read from the through table.
products_of(table, vendor_pk) == {row[2] : row \in {r \in table : r[1] = vendor_pk}}

Vendor_products_remove_all(table, vendor, product) == {r \in table : r[1] # vendor.pk}

\* vendor.products.add(product): a row of the through table, once.
Vendor_products_add(table, vendor, product) == table \cup {<<vendor.pk, product.pk>>}

\* vendor.products.remove(product).
Vendor_products_remove(table, vendor, product) == table \ {<<vendor.pk, product.pk>>}

\* info.context.plugins.product_updated(product), with the through table as
\* it is when the call is made.
product_updated(product, table) ==
    [method |-> "product_updated", product |-> product.pk, vendor_products |-> table]

\* VendorAddProduct.perform_mutation.
VendorAddProduct(id, product_id) ==
    /\ LET args == [id |-> id, product_id |-> product_id]
           vendor == get_node_or_error(id, "id", "Vendor", vendors)
           product == get_node_or_error(product_id, "id", "Product", Products)
           added == Vendor_products_add(vendor_products, vendor.node, product.node)
       IN  IF vendor.error.kind # "none"
           THEN /\ result' = Result("VendorAddProduct", args, vendor.error, NoNode, Stored, <<>>)
                /\ UNCHANGED vendor_products
           ELSE IF product.error.kind # "none"
           THEN /\ result' = Result("VendorAddProduct", args, product.error, NoNode, Stored, <<>>)
                /\ UNCHANGED vendor_products
           ELSE /\ vendor_products' = added
                /\ result' = Result("VendorAddProduct", args, NoError, vendor.node, Stored,
                                    <<product_updated(product.node, added)>>)
    /\ UNCHANGED <<vendors, next_pk, req, billing_infos, attachments, commissions,
                   transactions, vendor_images>>

\* VendorRemoveProduct.perform_mutation.
VendorRemoveProduct(id, product_id) ==
    /\ LET args == [id |-> id, product_id |-> product_id]
           vendor == get_node_or_error(id, "id", "Vendor", vendors)
           product == get_node_or_error(product_id, "id", "Product", Products)
           removed == Vendor_products_remove(vendor_products, vendor.node, product.node)
       IN  IF vendor.error.kind # "none"
           THEN /\ result' = Result("VendorRemoveProduct", args, vendor.error, NoNode, Stored, <<>>)
                /\ UNCHANGED vendor_products
           ELSE IF product.error.kind # "none"
           THEN /\ result' = Result("VendorRemoveProduct", args, product.error, NoNode, Stored, <<>>)
                /\ UNCHANGED vendor_products
           ELSE /\ vendor_products' = removed
                /\ result' = Result("VendorRemoveProduct", args, NoError, vendor.node, Stored,
                                    <<product_updated(product.node, removed)>>)
    /\ UNCHANGED <<vendors, next_pk, req, billing_infos, attachments, commissions,
                   transactions, vendor_images>>

\* ------------------------------------------------ the assets specification

\* IDs a client may send where a product is expected.
ProductIds == {to_global_id("Product", 1), to_global_id("Product", 2),
               to_global_id("Product", 3), to_global_id("Vendor", 1)}

\* Two vendors are stored, so that one vendor's catalogue can be told from
\* the other's.
SecondVendor ==
    new_instance(2, validate_slug_and_generate_if_needed(
        [ValidInput EXCEPT !.brand_name = <<"A", "1">>, !.email = "b@x.co"], {ExistingVendor}))

AssetVendorIds == {to_global_id("Vendor", 1), to_global_id("Vendor", 2),
                   to_global_id("Vendor", 3), to_global_id("Product", 1)}

InitAssets ==
    /\ vendors = {ExistingVendor, SecondVendor}
    /\ next_pk = 3
    /\ req = [c \in Clients |-> Idle]
    /\ NoEntities

NextAssets ==
    \/ \E vendor_id \in AssetVendorIds, file \in Files : VendorAddAttachment(vendor_id, file)
    \/ \E id \in AssetVendorIds, product_id \in ProductIds : VendorAddProduct(id, product_id)
    \/ \E id \in AssetVendorIds, product_id \in ProductIds : VendorRemoveProduct(id, product_id)

SpecAssets == InitAssets /\ [][NextAssets]_vars

\* ------------------------------------------------ the images specification

\* The logo and the header image of the one stored vendor are replaced, with
\* every outcome of the HEAD request and of the download.
NextImages ==
    \/ \E id \in VendorIds, image_url \in Urls, head \in Heads,
          download \in Downloads, hash \in Hashes :
          VendorUpdateLogo(id, image_url, head, download, hash)
    \/ \E id \in VendorIds, image_url \in Urls, head \in Heads,
          download \in Downloads, hash \in Hashes :
          VendorUpdateHeader(id, image_url, head, download, hash)
    \/ \E image_url \in Urls, head \in Heads : IsImageUrl(image_url, head)

SpecImages == InitValidate /\ [][NextImages]_vars

\* -------------------------------------------------------------- Commission

\* Rows the Commission table is ever given.
MaxCommissions == 2

\* Commission.Type.
FIXED == 1
PERCENTAGE == 2

\* The fields CommissionCreate.clean_input looks at, and those of them that
\* are graphene.Int.
CommissionChecked == {"name", "type", "currency", "price_amount"}
CommissionInts == {"type", "price_amount"}

\* data["input"][field] == "": an Int is never equal to the empty string.
is_empty_string(field, value) == field \notin CommissionInts /\ value = <<>>

\* CommissionCreate.clean_input.  data["input"][field] is a plain dict
\* lookup: a field the client left out raises KeyError.
CommissionCreate_clean_input(input) ==
    IF ~(CommissionChecked \subseteq DOMAIN input)
    THEN Exception("KeyError")
    ELSE LET validation_errors ==
                 [field \in {f \in CommissionChecked : is_empty_string(f, input[f])}
                     |-> Err("COMMISSION_ERROR")]
         IN  IF DOMAIN validation_errors # {}
             THEN [kind |-> "dict", code |-> "", errors |-> validation_errors,
                   accumulated |-> validation_errors]
             ELSE NoError

\* models.Commission(**cleaned_input) with commission.vendor = vendor:
\* description defaults to "", the category (a foreign key, 0 for NULL) is
\* not set.
Commission_new(pk, cleaned_input, vendor) ==
    [pk |-> pk, name |-> cleaned_input.name,
     description |-> IF "description" \in DOMAIN cleaned_input
                     THEN cleaned_input.description ELSE <<>>,
     type |-> cleaned_input.type, currency |-> cleaned_input.currency,
     price_amount |-> cleaned_input.price_amount,
     vendor |-> vendor.pk, category |-> 0]

\* CommissionCreate.perform_mutation.
CommissionCreate(vendor_id, input) ==
    /\ next_id(commissions) <= MaxCommissions
    /\ LET data == [vendor_id |-> vendor_id, input |-> input]
           vendor == get_node_or_error(vendor_id, "vendorId", "Vendor", vendors)
           cleaned == CommissionCreate_clean_input(input)
           commission == Commission_new(next_id(commissions), input, vendor.node)
       IN  IF vendor.error.kind # "none"
           THEN /\ result' = Result("CommissionCreate", data, vendor.error, NoNode, Stored, <<>>)
                /\ UNCHANGED commissions
           ELSE IF cleaned.kind # "none"
           THEN /\ result' = Result("CommissionCreate", data, cleaned, NoNode, Stored, <<>>)
                /\ UNCHANGED commissions
           ELSE /\ commissions' = commissions \cup {commission}
                /\ result' = Result("CommissionCreate", data, NoError, commission, Stored, <<>>)
    /\ UNCHANGED <<vendors, next_pk, req, billing_infos, attachments, transactions,
                   vendor_products, vendor_images>>

\* ------------------------------------------------------------- Transaction

\* Transaction.Status.PENDING, the default of transaction_status.
PENDING == 1

\* A stored transaction of the stored vendor; user and payment (foreign
\* keys, 0 for NULL) are not set.  created_at is the day of the insert.
ExistingTransaction ==
    [pk |-> 1, name |-> <<"a">>, vendor |-> 1, user |-> 0, payment |-> 0,
     transaction_status |-> PENDING, price_amount |-> 1, created_at |-> 1]

\* The graphene type of models.Transaction, whose name is the type part of
\* every transaction ID the schema emits.
VendorTransaction == "VendorTransaction"

\* TransactionAddPayment.perform_mutation: the transaction is looked up with
\* only_type="VendorTransaction".
TransactionAddPayment(id, payment_id) ==
    /\ LET args == [id |-> id, payment_id |-> payment_id]
           transaction == get_node_or_error(id, "id", "VendorTransaction", transactions)
           payment == get_node_or_error(payment_id, "id", "Payment", Payments)
           saved == [transaction.node EXCEPT !.payment = payment.node.pk]
       IN  IF transaction.error.kind # "none"
           THEN /\ result' = Result("TransactionAddPayment", args, transaction.error,
                                    NoNode, Stored, <<>>)
                /\ UNCHANGED transactions
           ELSE IF payment.error.kind # "none"
           THEN /\ result' = Result("TransactionAddPayment", args, payment.error,
                                    NoNode, Stored, <<>>)
                /\ UNCHANGED transactions
           ELSE /\ transactions' = (transactions \ {transaction.node}) \cup {saved}
                /\ result' = Result("TransactionAddPayment", args, NoError, saved, Stored, <<>>)
    /\ UNCHANGED <<vendors, next_pk, req, billing_infos, attachments, commissions,
                   vendor_products, vendor_images>>

\* TransactionAddUser.perform_mutation: the transaction is looked up with
\* only_type="Transaction".
TransactionAddUser(id, user_id) ==
    /\ LET args == [id |-> id, user_id |-> user_id]
           transaction == get_node_or_error(id, "id", "Transaction", transactions)
           user == get_node_or_error(user_id, "id", "User", Users)
           saved == [transaction.node EXCEPT !.user = user.node.pk]
       IN  IF transaction.error.kind # "none"
           THEN /\ result' = Result("TransactionAddUser", args, transaction.error,
                                    NoNode, Stored, <<>>)
                /\ UNCHANGED transactions
           ELSE IF user.error.kind # "none"
           THEN /\ result' = Result("TransactionAddUser", args, user.error,
                                    NoNode, Stored, <<>>)
                /\ UNCHANGED transactions
           ELSE /\ transactions' = (transactions \ {transaction.node}) \cup {saved}
                /\ result' = Result("TransactionAddUser", args, NoError, saved, Stored, <<>>)
    /\ UNCHANGED <<vendors, next_pk, req, billing_infos, attachments, commissions,
                   vendor_products, vendor_images>>

\* ----------------------------------------------------- Commission category

\* The host's Category table.
Categories == {[pk |-> 1], [pk |-> 2]}

\* Commission.resolve_category(root, info): [raised, value].  root.category
\* is None for a NULL foreign key, and None has no attribute id.
resolve_category(root) ==
    IF root.category = 0
    THEN [raised |-> "AttributeError", value |-> None]
    ELSE [raised |-> "", value |-> to_global_id("Category", root.category)]

\* The mutation's response: the commission and what its category field
\* resolves to.
CommissionResponse(commission) ==
    [commission |-> commission, category |-> resolve_category(commission)]

NoCommissionResponse == [commission |-> NoNode, category |-> [raised |-> "", value |-> None]]

\* CommissionAddCategory.perform_mutation.
CommissionAddCategory(id, category_id) ==
    /\ LET args == [id |-> id, category_id |-> category_id]
           commission == get_node_or_error(id, "id", "Commission", commissions)
           category == get_node_or_error(category_id, "id", "Category", Categories)
           saved == [commission.node EXCEPT !.category = category.node.pk]
       IN  IF commission.error.kind # "none"
           THEN /\ result' = Result("CommissionAddCategory", args, commission.error,
                                    NoCommissionResponse, Stored, <<>>)
                /\ UNCHANGED commissions
           ELSE IF category.error.kind # "none"
           THEN /\ result' = Result("CommissionAddCategory", args, category.error,
                                    NoCommissionResponse, Stored, <<>>)
                /\ UNCHANGED commissions
           ELSE /\ commissions' = (commissions \ {commission.node}) \cup {saved}
                /\ result' = Result("CommissionAddCategory", args, NoError,
                                    CommissionResponse(saved), Stored, <<>>)
    /\ UNCHANGED <<vendors, next_pk, req, billing_infos, attachments, transactions,
                   vendor_products, vendor_images>>

\* CommissionRemoveCategory.perform_mutation.
CommissionRemoveCategory(id) ==
    /\ LET args == [id |-> id]
           commission == get_node_or_error(id, "id", "Commission", commissions)
           saved == [commission.node EXCEPT !.category = 0]
       IN  IF commission.error.kind # "none"
           THEN /\ result' = Result("CommissionRemoveCategory", args, commission.error,
                                    NoCommissionResponse, Stored, <<>>)
                /\ UNCHANGED commissions
           ELSE /\ commissions' = (commissions \ {commission.node}) \cup {saved}
                /\ result' = Result("CommissionRemoveCategory", args, NoError,
                                    CommissionResponse(saved), Stored, <<>>)
    /\ UNCHANGED <<vendors, next_pk, req, billing_infos, attachments, transactions,
                   vendor_products, vendor_images>>

\* ------------------------------------------------ the ledger specification

\* Transaction IDs as the schema emits them (for the stored transaction and
\* for one that does not exist), and an ID of another type.
TransactionIds == {to_global_id(VendorTransaction, 1), to_global_id(VendorTransaction, 2),
                   to_global_id("Vendor", 1)}

UserIds == {to_global_id("User", 1), to_global_id("User", 2), to_global_id("User", 3)}

\* Commission IDs (the second may name no row yet) and an ID of another type.
CommissionIds == {to_global_id("Commission", 1), to_global_id("Commission", 2),
                  to_global_id("Vendor", 1)}

\* Category IDs: the stored categories, one that does not exist, an ID of
\* another type.
CategoryIds == {to_global_id("Category", 1), to_global_id("Category", 2),
                to_global_id("Category", 3), to_global_id("Product", 1)}

PaymentIds == {to_global_id("Payment", 1), to_global_id("Payment", 2),
               to_global_id("Payment", 3)}

\* CommissionCreateInput: name is required; type, currency and price_amount
\* may be left out; name and currency may be empty strings.
CommissionCreateInputs ==
    {("name" :> n) @@ t @@ c @@ p :
        n \in {<<>>, <<"a">>},
        t \in {NoErrors} \cup {"type" :> x : x \in {FIXED, PERCENTAGE}},
        c \in {NoErrors} \cup {"currency" :> x : x \in {<<>>, <<"a">>}},
        p \in {NoErrors, "price_amount" :> 1}}

InitLedger ==
    /\ vendors = {ExistingVendor}
    /\ next_pk = 2
    /\ req = [c \in Clients |-> Idle]
    /\ billing_infos = {}
    /\ attachments = {}
    /\ commissions = {}
    /\ transactions = {ExistingTransaction}
    /\ vendor_products = {}
    /\ vendor_images = [pk \in 1..MaxVendors |-> NoImages]
    /\ result = NoResult

NextLedger ==
    \/ \E vendor_id \in VendorIds, input \in CommissionCreateInputs :
          CommissionCreate(vendor_id, input)
    \/ \E id \in TransactionIds, payment_id \in PaymentIds : TransactionAddPayment(id, payment_id)
    \/ \E id \in TransactionIds, user_id \in UserIds : TransactionAddUser(id, user_id)
    \/ \E id \in CommissionIds, category_id \in CategoryIds :
          CommissionAddCategory(id, category_id)
    \/ \E id \in CommissionIds : CommissionRemoveCategory(id)

SpecLedger == InitLedger /\ [][NextLedger]_vars

\* ------------------------------------------------------------------ filters

\* Model.objects.all() as a queryset: the rows of the table, by primary key.
objects_all(table) ==
    [i \in 1..Cardinality(table) |->
        CHOOSE r \in table : Cardinality({o \in table : o.pk < r.pk}) = i - 1]

Upper(c) == IF c = "a" THEN "A" ELSE IF c = "b" THEN "B" ELSE c

\* field__contains: LIKE '%value%'.
contains(text, value) ==
    \E i \in 0..(Len(text) - Len(value)) : SubSeq(text, i + 1, i + Len(value)) = value

\* A search that tells the letter cases apart.
icontains_case_sensitive(text, value) == contains(text, value)

\* field__icontains: UPPER(field) LIKE UPPER('%value%').
icontains(text, value) ==
    contains([i \in 1..Len(text) |-> Upper(text[i])],
             [i \in 1..Len(value) |-> Upper(value[i])])

\* QuerySet.distinct(): every row once, at its first place.
RECURSIVE distinct(_)
distinct(queryset) ==
    IF queryset = <<>> THEN <<>>
    ELSE LET init == distinct(SubSeq(queryset, 1, Len(queryset) - 1))
             last == queryset[Len(queryset)]
         IN  IF \E i \in 1..Len(init) : init[i] = last THEN init ELSE Append(init, last)

\* filter_by_query_param(queryset, query, search_fields): the rows one of
\* whose search fields icontains the query; the queryset itself for a falsy
\* query (None or "").
filter_by_query_param(queryset, query, search_fields) ==
    IF Truthy(query)
    THEN LET query_objects(row) == \E field \in search_fields : icontains(row[field], query)
         IN  distinct(SelectSeq(queryset, query_objects))
    ELSE queryset

filter_vendor_search(qs, value) == filter_by_query_param(qs, value, {"brand_name"})

filter_transaction_search(qs, value) == filter_by_query_param(qs, value, {"name"})

\* str.split(sep): the parts of the text between the separators, one more
\* than there are separators.
RECURSIVE split(_, _)
split(value, sep) ==
    IF \A i \in 1..Len(value) : value[i] # sep
    THEN <<value>>
    ELSE LET i == CHOOSE k \in 1..Len(value) :
                      value[k] = sep /\ \A j \in 1..(k - 1) : value[j] # sep
         IN  <<SubSeq(value, 1, i - 1)>> \o split(SubSeq(value, i + 1, Len(value)), sep)

\* Texts DateTimeField.to_python takes for a date, and the day each stands
\* for; any other text makes it raise ValidationError.
DateDigits == <<"1", "2", "3">>

DateTexts == {<<DateDigits[d]>> : d \in 1..Len(DateDigits)}

to_python(text) == CHOOSE d \in 1..Len(DateDigits) : text = <<DateDigits[d]>>

\* qs.filter(**{name + "__range": values}): [raised, qs].  The lookup prepares
\* every value with the field's to_python and compiles to
\* "BETWEEN %s AND %s" % (rhs[0], rhs[1]) with all the values as parameters:
\* one value raises IndexError, more than two are refused by the database
\* driver, two select the rows from the first to the second, both included.
filter_range(qs, name, values) ==
    IF \E i \in 1..Len(values) : values[i] \notin DateTexts
    THEN [raised |-> "ValidationError", qs |-> <<>>]
    ELSE IF Len(values) < 2 THEN [raised |-> "IndexError", qs |-> <<>>]
    ELSE IF Len(values) > 2 THEN [raised |-> "TypeError", qs |-> <<>>]
    ELSE [raised |-> "",
          qs |-> SelectSeq(qs, LAMBDA r : /\ to_python(values[1]) <= r[name]
                                          /\ r[name] <= to_python(values[2]))]

\* filter_transaction_date_range(qs, _, value), where _ is the name of the
\* filter's field: [raised, qs].  Nothing is caught.
filter_transaction_date_range(qs, name, value) == filter_range(qs, name, split(value, ","))

\* filter_connection_queryset(qs, kwargs) with a FilterSet whose only filter
\* taken here is search: django_filters calls the filter's method unless
\* the value is empty.
filter_connection_queryset(qs, kwargs, filterset_class) ==
    IF "filter" \in DOMAIN kwargs /\ "search" \in DOMAIN kwargs.filter
          /\ Truthy(kwargs.filter.search)
    THEN IF filterset_class = "VendorFilter"
         THEN filter_vendor_search(qs, kwargs.filter.search)
         ELSE filter_transaction_search(qs, kwargs.filter.search)
    ELSE qs

\* -------------------------------------------------------------------- schema

\* resolve_global_ids_to_primary_keys with raise_error unset: IDs of
\* another type are skipped.
get_global_ids_skip_other_types(ids, only_type, field) ==
    IF \E i \in 1..Len(ids) : from_global_id_or_error(ids[i], only_type, FALSE).raised
    THEN [error |-> FieldError(field, "graphql_error"), pks |-> {}]
    ELSE [error |-> NoError,
          pks |-> {from_global_id_or_error(ids[i], only_type, FALSE).pk : i \in 1..Len(ids)}]

\* BaseMutation.get_global_ids_or_error(ids, only_type, field): [error,
\* pks].  An ID that does not decode or is of another type raises
\* GraphQLError, handed on as a ValidationError keyed field.
get_global_ids_or_error(ids, only_type, field) ==
    IF \E i \in 1..Len(ids) : from_global_id_or_error(ids[i], only_type, TRUE).raised
    THEN [error |-> FieldError(field, "graphql_error"), pks |-> {}]
    ELSE [error |-> NoError,
          pks |-> {from_global_id_or_error(ids[i], only_type, TRUE).pk : i \in 1..Len(ids)}]

\* create_connection_slice(qs, info, kwargs, connection): the edges of the
\* connection; with no first/last/after/before these are the queryset's rows.
create_connection_slice(qs) == qs

\* Query.resolve_vendors(self, info, ids=None, **kwargs): [error, edges].
resolve_vendors(kwargs) ==
    LET given == "ids" \in DOMAIN kwargs /\ kwargs.ids # <<>>
        vendor_ids == get_global_ids_or_error(kwargs.ids, "Vendor", "vendors")
        in_ids(row) == row.pk \in vendor_ids.pks
        qs == IF given THEN SelectSeq(objects_all(vendors), in_ids)
              ELSE objects_all(vendors)
    IN  IF given /\ vendor_ids.error.kind # "none"
        THEN [error |-> vendor_ids.error, edges |-> <<>>]
        ELSE [error |-> NoError,
              edges |-> create_connection_slice(
                            filter_connection_queryset(qs, kwargs, "VendorFilter"))]

\* Query.resolve_transactions(root, info, **kwargs).
resolve_transactions(kwargs) ==
    [error |-> NoError,
     edges |-> create_connection_slice(
                   filter_connection_queryset(objects_all(transactions), kwargs,
                                              "TransactionFilter"))]

\* ------------------------------------------------------------------- plugin

\* The instance of VendorPlugin the manager calls.
VendorPlugin == "vendor"

\* GraphQLView.as_view(schema=schema)(request): the response to the query
\* of the request, run against Query of the vendor schema.
GraphQLView(request) ==
    LET resolved == IF request.query.field = "vendors"
                    THEN resolve_vendors(request.query.kwargs)
                    ELSE resolve_transactions(request.query.kwargs)
    IN  [status |-> 200, data |-> resolved.edges, errors |-> resolved.error]

\* A plugin that serves its schema under the path "graphql" only and hands
\* previous_value back for every other path.
webhook_on_graphql_path(self, request, path, previous_value) ==
    IF path = "graphql"
    THEN [request |-> [request EXCEPT !.app = self],
          response |-> GraphQLView([request EXCEPT !.app = self])]
    ELSE [request |-> request, response |-> previous_value]

\* VendorPlugin.webhook(self, request, path, previous_value): the request
\* as it is left, and the response returned.
webhook(self, request, path, previous_value) ==
    [request |-> [request EXCEPT !.app = self],
     response |-> GraphQLView([request EXCEPT !.app = self])]

\* The plugin manager calls webhook for a request to the plugin's URL.
VendorPlugin_webhook(request, path, previous_value) ==
    /\ result' = Result("webhook",
                        [request |-> request, path |-> path, previous_value |-> previous_value],
                        NoError, webhook(VendorPlugin, request, path, previous_value),
                        Stored, <<>>)
    /\ UNCHANGED <<vendors, next_pk, req, billing_infos, attachments, commissions,
                   transactions, vendor_products, vendor_images>>

\* filter_vendor_search(qs, _, value) called on its own.
VendorFilter_search(qs, value) ==
    /\ result' = Result("filter_vendor_search", [qs |-> qs, value |-> value],
                        NoError, filter_vendor_search(qs, value), Stored, <<>>)
    /\ UNCHANGED <<vendors, next_pk, req, billing_infos, attachments, commissions,
                   transactions, vendor_products, vendor_images>>

\* filter_transaction_search(qs, _, value) called on its own.
TransactionFilter_search(qs, value) ==
    /\ result' = Result("filter_transaction_search", [qs |-> qs, value |-> value],
                        NoError, filter_transaction_search(qs, value), Stored, <<>>)
    /\ UNCHANGED <<vendors, next_pk, req, billing_infos, attachments, commissions,
                   transactions, vendor_products, vendor_images>>

\* TransactionFilter.created_at: django_filters calls
\* filter_transaction_date_range(qs, "created_at", value) for a value that is
\* not empty; the FilterSet and the resolver catch nothing either.
TransactionFilter_created_at(qs, value) ==
    /\ LET filtered == filter_transaction_date_range(qs, "created_at", value)
       IN  result' = Result("filter_transaction_date_range", [qs |-> qs, value |-> value],
                            IF filtered.raised # "" THEN Exception(filtered.raised)
                            ELSE NoError,
                            filtered.qs, Stored, <<>>)
    /\ UNCHANGED <<vendors, next_pk, req, billing_infos, attachments, commissions,
                   transactions, vendor_products, vendor_images>>

\* ------------------------------------------------- the query specification

\* Longest list of IDs a vendors query is given.
MaxIds == 2

\* A second stored transaction.
SecondTransaction ==
    [pk |-> 2, name |-> <<"1", "A">>, vendor |-> 2, user |-> 0, payment |-> 0,
     transaction_status |-> PENDING, price_amount |-> 1, created_at |-> 2]

\* IDs a vendors query may list: the stored vendors, a vendor that does not
\* exist, an ID of another type, text that is no ID.
QueryIds == {to_global_id("Vendor", 1), to_global_id("Vendor", 2), to_global_id("Vendor", 3),
             to_global_id("Product", 1), Undecodable("x")}

RECURSIVE IdLists(_)
IdLists(n) ==
    IF n = 0 THEN {<<>>}
    ELSE IdLists(n - 1) \cup {Append(l, id) : l \in {k \in IdLists(n - 1) : Len(k) = n - 1},
                                              id \in QueryIds}

\* Search values: none, the empty string, and strings in either case.
SearchValues == OptStr \cup {<<"A">>, <<"1", "A">>}

\* Longest created_at value that is enumerated in full.
MaxDateLen == 3

\* Values of the created_at filter: every text of digits and commas up to
\* MaxDateLen but the empty one, and a text of three dates.
DateValues ==
    (UNION {[1..n -> {"1", "2", "3", ","}] : n \in 1..MaxDateLen})
    \cup {<<"1", ",", "2", ",", "3">>}

\* The filter argument: absent, empty, or with a search value.
Filters == {NoErrors} \cup {"filter" :> NoErrors}
           \cup {"filter" :> ("search" :> s) : s \in SearchValues \ {None}}

\* The queries taken: vendors(ids, filter) and transactions(filter).
Queries ==
    {[field |-> "vendors", kwargs |-> i @@ f] :
        i \in {NoErrors} \cup {"ids" :> l : l \in IdLists(MaxIds)}, f \in Filters}
    \cup {[field |-> "transactions", kwargs |-> f] : f \in Filters}

\* Requests as they reach the plugin: request.app is not the plugin's.
Requests == {[query |-> q, app |-> ""] : q \in Queries}

Paths == {"", "graphql", "other"}

\* previous_value: the manager's default (HttpResponseNotFound) or the
\* response of a plugin called before.
PreviousValues == {[status |-> 404, data |-> <<>>, errors |-> NoError],
                   [status |-> 200, data |-> <<>>, errors |-> NoError]}

\* The querysets the search filters are applied to: the rows of a table, or
\* a part of them.
Querysets(table) == {objects_all(part) : part \in SUBSET table}

InitQuery ==
    /\ vendors = {ExistingVendor, SecondVendor}
    /\ next_pk = 3
    /\ req = [c \in Clients |-> Idle]
    /\ billing_infos = {}
    /\ attachments = {}
    /\ commissions = {}
    /\ transactions = {ExistingTransaction, SecondTransaction}
    /\ vendor_products = {}
    /\ vendor_images = [pk \in 1..MaxVendors |-> NoImages]
    /\ result = NoResult

\* The calls read the tables and leave them as they are: one call on the
\* stored rows shows every outcome.
NextQuery ==
    \/ /\ result = NoResult
       /\ \E request \in Requests, path \in Paths, previous_value \in PreviousValues :
             VendorPlugin_webhook(request, path, previous_value)
    \/ /\ result = NoResult
       /\ \E qs \in Querysets(vendors), value \in SearchValues :
             VendorFilter_search(qs, value)
    \/ /\ result = NoResult
       /\ \E qs \in Querysets(transactions), value \in SearchValues :
             TransactionFilter_search(qs, value)
    \/ /\ result = NoResult
       /\ \E qs \in Querysets(transactions), value \in DateValues :
             TransactionFilter_created_at(qs, value)

SpecQuery == InitQuery /\ [][NextQuery]_vars

\* ------------------------------------------- creating and deleting the rows

MaxTransactions == 2

\* The day the rows of the integrity specification are inserted on.
Today == 1

\* models.Transaction.objects.create(**input, vendor=vendor): the inserted
\* row.  transaction_status takes its default when the input leaves it out;
\* created_at is the day of the insert (auto_now_add); user and payment are
\* not part of the input.
Transaction_create(pk, input, vendor, now) ==
    [pk |-> pk, name |-> input.name, vendor |-> vendor.pk, user |-> 0, payment |-> 0,
     transaction_status |-> IF "transaction_status" \in DOMAIN input
                            THEN input.transaction_status ELSE PENDING,
     price_amount |-> IF "price_amount" \in DOMAIN input THEN input.price_amount ELSE 0,
     created_at |-> now]

\* VendorTransactionCreate.perform_mutation.  An empty vendor_id makes
\* get_node_or_error return None and the row is inserted with no vendor;
\* price_amount has no default and is NOT NULL, so the INSERT fails without
\* it.
VendorTransactionCreate(vendor_id, input, now) ==
    /\ next_id(transactions) <= MaxTransactions
    /\ LET data == [vendor_id |-> vendor_id, input |-> input]
           vendor == get_node_or_error(vendor_id, "id", "Vendor", vendors)
           transaction == Transaction_create(next_id(transactions), input, vendor.node, now)
       IN  IF vendor.error.kind # "none"
           THEN /\ result' = Result("VendorTransactionCreate", data, vendor.error,
                                    NoNode, Stored, <<>>)
                /\ UNCHANGED transactions
           ELSE IF "price_amount" \notin DOMAIN input
           THEN /\ result' = Result("VendorTransactionCreate", data,
                                    Exception("IntegrityError"), NoNode, Stored, <<>>)
                /\ UNCHANGED transactions
           ELSE /\ transactions' = transactions \cup {transaction}
                /\ result' = Result("VendorTransactionCreate", data, NoError,
                                    transaction, Stored, <<>>)
    /\ UNCHANGED <<vendors, next_pk, req, billing_infos, attachments, commissions,
                   vendor_products, vendor_images>>

\* ModelDeleteMutation.perform_mutation on a table no other table refers
\* to: the node is looked up with the mutation's object_type and its row is
\* deleted.  [error, node, table].
ModelDelete(id, object_type, table) ==
    LET instance == get_node_or_error(id, "id", object_type, table)
    IN  [error |-> instance.error, node |-> instance.node,
         table |-> IF instance.error.kind = "none" THEN table \ {instance.node} ELSE table]

\* BillingInfoDelete: object_type = types.Billing.
BillingInfoDelete(id) ==
    /\ LET deleted == ModelDelete(id, "Billing", billing_infos)
       IN  /\ billing_infos' = deleted.table
           /\ result' = Result("BillingInfoDelete", [id |-> id], deleted.error,
                               deleted.node, Stored, <<>>)
    /\ UNCHANGED <<vendors, next_pk, req, attachments, commissions, transactions,
                   vendor_products, vendor_images>>

\* TransactionDelete: object_type = types.VendorTransaction.
TransactionDelete(id) ==
    /\ LET deleted == ModelDelete(id, VendorTransaction, transactions)
       IN  /\ transactions' = deleted.table
           /\ result' = Result("TransactionDelete", [id |-> id], deleted.error,
                               deleted.node, Stored, <<>>)
    /\ UNCHANGED <<vendors, next_pk, req, billing_infos, attachments, commissions,
                   vendor_products, vendor_images>>

\* CommissionDelete: object_type = types.Commission.
CommissionDelete(id) ==
    /\ LET deleted == ModelDelete(id, "Commission", commissions)
       IN  /\ commissions' = deleted.table
           /\ result' = Result("CommissionDelete", [id |-> id], deleted.error,
                               deleted.node, Stored, <<>>)
    /\ UNCHANGED <<vendors, next_pk, req, billing_infos, attachments, transactions,
                   vendor_products, vendor_images>>

\* VendorRemoveAttachment: model = models.Attachment, object_type =
\* types.Vendor.  The node is looked up as a Vendor, so the ID of an
\* attachment is refused and the ID of a vendor deletes that vendor.
VendorRemoveAttachment(id) ==
    /\ LET instance == get_node_or_error(id, "id", "Vendor", vendors)
       IN  IF instance.error.kind # "none"
           THEN /\ result' = Result("VendorRemoveAttachment", [id |-> id], instance.error,
                                    NoNode, Stored, <<>>)
                /\ UNCHANGED <<vendors, billing_infos, attachments, commissions,
                               transactions, vendor_products, vendor_images>>
           ELSE /\ Vendor_delete(instance.node.pk)
                /\ result' = Result("VendorRemoveAttachment", [id |-> id], NoError,
                                    [pk |-> instance.node.pk], Stored, <<>>)
    /\ UNCHANGED <<next_pk, req>>

\* --------------------------------------------- the integrity specification

\* An attachment of each stored vendor.
FirstAttachment == Attachment_create(1, ExistingVendor, "f1")
SecondAttachment == Attachment_create(2, SecondVendor, "f2")

IntegrityVendorIds == {to_global_id("Vendor", 1), to_global_id("Vendor", 2),
                       to_global_id("Product", 1)}

\* IDs of rows of the dependent tables, under the name of their graphene
\* type.
RowIds(type) == {to_global_id(type, 1), to_global_id(type, 2)}

IntegrityBillingInput ==
    [iban |-> <<"1">>, bank_name |-> <<"a">>, bank_address |-> <<"a">>, bank_country |-> <<"a">>]

IntegrityCommissionInput ==
    [name |-> <<"a">>, type |-> FIXED, currency |-> <<"a">>, price_amount |-> 1]

\* VendorTransactionCreateInput: name is required.
TransactionCreateInputs ==
    {[name |-> <<"a">>] @@ p : p \in {NoErrors, "price_amount" :> 1}}

\* Two vendors are stored, each with an attachment, and the first with a
\* transaction.
InitIntegrity ==
    /\ vendors = {ExistingVendor, SecondVendor}
    /\ next_pk = 3
    /\ req = [c \in Clients |-> Idle]
    /\ billing_infos = {}
    /\ attachments = {FirstAttachment, SecondAttachment}
    /\ commissions = {}
    /\ transactions = {ExistingTransaction}
    /\ vendor_products = {}
    /\ vendor_images = [pk \in 1..MaxVendors |-> NoImages]
    /\ result = NoResult

NextIntegrity ==
    \/ \E vendor_id \in IntegrityVendorIds : BillingInfoCreate(vendor_id, IntegrityBillingInput)
    \/ \E id \in RowIds("Billing") : BillingInfoUpdate(id, "bank_city" :> <<"a">>)
    \/ \E id \in RowIds("Billing") : BillingInfoDelete(id)
    \/ \E vendor_id \in IntegrityVendorIds : CommissionCreate(vendor_id, IntegrityCommissionInput)
    \/ \E id \in RowIds("Commission") : CommissionDelete(id)
    \/ \E vendor_id \in IntegrityVendorIds \cup {EmptyId}, input \in TransactionCreateInputs :
          VendorTransactionCreate(vendor_id, input, Today)
    \/ \E id \in RowIds(VendorTransaction) : TransactionDelete(id)
    \/ \E id \in IntegrityVendorIds \cup RowIds("Attachment") : VendorRemoveAttachment(id)
    \/ \E pk \in 1..MaxVendors : VendorDelete("c1", pk)

SpecIntegrity == InitIntegrity /\ [][NextIntegrity]_vars

\* ------------------------------------------------------------------ claims

\* The clients whose last request was a VendorCreate that clean_input has seen.
Creates == {c \in Clients : req[c].op = "create"}

\* clean_input returned (the request went on to clean_instance and the save).
Returned(c) == req[c].error.kind \notin {"single", "dict"}

ExactlyOneDocument(r) == Truthy(r.residence_id) # Truthy(r.national_id)

\* C1: VendorCreate enforces identity-document mutual exclusivity: an input
\* with both residence_id and national_id non-empty, or with neither, is
\* rejected with code ONLY_ONE_ALLOWED and stores no vendor; an input passes
\* clean_input only when exactly one of the two is non-empty.
C1_IdentityDocumentsExclusive ==
    /\ \A c \in Creates :
          /\ ~ExactlyOneDocument(req[c].data) =>
                /\ req[c].pc = "failed"
                /\ req[c].error.kind = "single"
                /\ req[c].error.code = "ONLY_ONE_ALLOWED"
          /\ Returned(c) => ExactlyOneDocument(req[c].data)
    /\ \A v \in vendors : ExactlyOneDocument(v)

\* A create with both documents supplied has been rejected.
C1_Witness ==
    \E c \in Creates :
        /\ Truthy(req[c].data.residence_id) /\ Truthy(req[c].data.national_id)
        /\ req[c].pc = "failed" /\ req[c].error.code = "ONLY_ONE_ALLOWED"

\* The entry the raised error holds for a field, if any.
Reported(c, field, code) ==
    /\ req[c].pc = "failed"
    /\ field \in DOMAIN req[c].error.errors
    /\ req[c].error.errors[field].code = code

\* C2: the VAT requirement is conditional on the registration type: for
\* COMPANY a missing or empty vat_number yields an error keyed vat_number
\* with code MISSING_VAT and a non-numeric one yields INVALID_VAT; for
\* MAROOF vat_number is never a cause of rejection.  Stated for the inputs
\* that get as far as the VAT check (exactly one identity document).
C2_VatConditionalOnType ==
    \A c \in {x \in Creates : ExactlyOneDocument(req[x].data)} :
        LET d == req[c].data
        IN  /\ (d.registration_type = COMPANY /\ ~Truthy(d.vat_number))
                   => Reported(c, "vat_number", "MISSING_VAT")
            /\ (d.registration_type = COMPANY /\ Truthy(d.vat_number)
                   /\ ~AllDigits(d.vat_number))
                   => Reported(c, "vat_number", "INVALID_VAT")
            /\ d.registration_type = MAROOF
                   => "vat_number" \notin DOMAIN req[c].error.errors

\* C3: a residence ID, national ID or (for COMPANY) VAT number is accepted
\* if and only if every character of it is a decimal digit: a non-empty
\* value with a non-digit anywhere makes the create fail, and whenever the
\* field checks were reached the error names the field with its own code.
C3_OnlyNumbersAccepted ==
    \A c \in Creates :
        LET d == req[c].data
            bad(s) == Truthy(s) /\ ~AllDigits(s)
            named(field, code) ==
                /\ req[c].pc = "failed"
                /\ req[c].error.kind = "dict" => Reported(c, field, code)
        IN  /\ bad(d.residence_id) => named("residence_id", "INVALID_RESIDENCE_ID")
            /\ bad(d.national_id) => named("national_id", "INVALID_NATIONAL_ID")
            /\ (d.registration_type = COMPANY /\ bad(d.vat_number))
                   => named("vat_number", "INVALID_VAT")
            /\ \A f \in {"residence_id", "national_id", "vat_number"} :
                   (Truthy(d[f]) /\ AllDigits(d[f])) => f \notin DOMAIN req[c].error.errors

\* The name fields of an input that are empty.
EmptyNames(d) ==
    {f \in {"brand_name", "first_name", "last_name", "registration_number"} : d[f] = <<>>}

\* C4: the checks are independent and accumulated: the error a VendorCreate
\* is rejected with has an entry for every check that failed, also when
\* another check (the identity-document one) failed as well.
C4_EveryFailingCheckReported ==
    \A c \in Creates :
        ~Returned(c) => EmptyNames(req[c].data) \subseteq DOMAIN req[c].error.errors

\* C5: VendorCreate.clean_input fails exactly when the accumulated error map
\* is non-empty: it returns iff no check recorded an error.
C5_FailsExactlyWhenErrorsRecorded ==
    \A c \in Creates :
        ~Returned(c) <=> DOMAIN req[c].error.accumulated # {}


\* C6: brand names are unique among the stored vendors in every reachable
\* state, whatever the interleaving of VendorCreate, VendorUpdate and
\* VendorDelete; of two concurrent creates with one brand_name that both ran
\* the lookup before either saved, at most one stores a vendor.
C6_BrandNamesUnique ==
    \A v, w \in vendors : v.brand_name = w.brand_name => v = w

\* Two creates with the same brand_name both passed the lookup; one stored its
\* vendor, the save of the other was refused.
C6_Witness ==
    \E c, d \in Creates :
        /\ c # d
        /\ req[c].data.brand_name = req[d].data.brand_name
        /\ req[c].pc = "done"
        /\ req[d].pc = "failed" /\ req[d].error.kind = "integrity"
        /\ \E v \in vendors : v.brand_name = req[c].data.brand_name

\* C7 as stated: no two stored vendors share a phone number.
C7_PhoneNumbersUnique ==
    \A v, w \in vendors : v.phone_number = w.phone_number => v = w

\* C7, amended: VendorCreate rejects a phone_number that does not parse
\* (under key phone_number with INVALID_PHONE_NUMBER once the identity check
\* is passed) and never reports a valid phone_number, also when a stored
\* vendor already has it: phone numbers are not kept unique.
C7_PhoneNumberCheckedNotUnique ==
    \A c \in Creates :
        LET d == req[c].data
        IN  /\ from_string_raises(d.phone_number) =>
                  /\ req[c].pc = "failed"
                  /\ req[c].error.kind = "dict" =>
                        Reported(c, "phone_number", "INVALID_PHONE_NUMBER")
            /\ d.phone_number \in ValidPhones =>
                  "phone_number" \notin DOMAIN req[c].error.errors

\* A create whose phone number a stored vendor already had has stored its vendor.
C7_Witness ==
    \E c \in Creates :
        /\ req[c].pc = "done"
        /\ \E v, w \in vendors :
              /\ v # w
              /\ v.phone_number = req[c].data.phone_number
              /\ w.phone_number = req[c].data.phone_number

\* C8: e-mails are unique: a VendorCreate or VendorUpdate that would give a
\* vendor the e-mail of another stored vendor is rejected, so no two stored
\* vendors share an e-mail in any reachable state.
C8_EmailsUnique ==
    \A v, w \in vendors : v.email = w.email => v = w

\* A create with the e-mail of a stored vendor has been rejected for it.
C8_Witness ==
    \E c \in Creates :
        /\ req[c].pc = "failed"
        /\ "email" \in DOMAIN req[c].error.errors
        /\ \E v \in vendors : v.email = req[c].data.email

\* C9: the slug is generated if not provided and is unique: every stored
\* vendor has a non-empty slug, no two stored vendors share a slug, and a
\* slug failure of a VendorCreate is reported under key slug with code
\* INVALID_SLUG.
C9_SlugGeneratedAndUnique ==
    /\ \A v \in vendors : Truthy(v.slug)
    /\ \A v, w \in vendors : v.slug = w.slug => v = w
    /\ \A c \in Creates :
          (req[c].pc = "failed" /\ "slug" \in DOMAIN req[c].error.errors)
              => req[c].error.errors["slug"].code = "INVALID_SLUG"

\* The rules VendorCreate.clean_input applies to the identity documents and
\* the VAT number, as the messages of its errors state them.
NumbersOnly(s) == Truthy(s) => AllDigits(s)

CreateRules(v) ==
    /\ ExactlyOneDocument(v)
    /\ NumbersOnly(v.residence_id)
    /\ NumbersOnly(v.national_id)
    /\ v.registration_type = COMPANY => (Truthy(v.vat_number) /\ AllDigits(v.vat_number))

\* C10: the validation rules are applied before update as before create:
\* an update that would leave the vendor with both identity documents, a
\* non-numeric document or VAT number, or COMPANY without a VAT number is
\* rejected, so every stored vendor satisfies the create-time rules.
C10_UpdateKeepsCreateRules ==
    \A v \in vendors : CreateRules(v)


\* The entry the error of the last sub-entity call holds for a field.
ResultReports(field, code) ==
    /\ result.error.kind = "dict"
    /\ field \in DOMAIN result.error.errors
    /\ result.error.errors[field].code = code
    /\ ~result.error.errors[field].tuple

\* C11: a BillingInfoCreate whose iban is the empty string is rejected with
\* an error keyed iban with code INVALID_IBAN, one whose bank_name is the
\* empty string with an error keyed bank_name with code INVALID_BANK_NAME,
\* and in either case no BillingInfo is created; every other request for an
\* existing vendor creates exactly one BillingInfo linked to that vendor.
C11_EmptyIbanOrBankNameRejected ==
    result.op = "BillingInfoCreate" =>
        LET input == result.args.input
            vendor == from_global_id_or_error(result.args.vendor_id, "Vendor", TRUE)
        IN  /\ input.iban = <<>> => ResultReports("iban", "INVALID_IBAN")
            /\ input.bank_name = <<>> => ResultReports("bank_name", "INVALID_BANK_NAME")
            /\ (input.iban = <<>> \/ input.bank_name = <<>>)
                  => billing_infos = result.before.billing_infos
            /\ (input.iban # <<>> /\ input.bank_name # <<>>
                  /\ \E v \in vendors : ~vendor.raised /\ v.pk = vendor.pk) =>
                  /\ Succeeded
                  /\ \E b \in billing_infos :
                        /\ b \notin result.before.billing_infos
                        /\ b.vendor = vendor.pk
                        /\ billing_infos = result.before.billing_infos \cup {b}

\* C12: after a successful BillingInfoUpdate(id, input) every field present
\* in input has the supplied value in the stored record, and every field
\* absent from input keeps the value it had.
C12_UpdateStoresSuppliedFields ==
    (result.op = "BillingInfoUpdate" /\ Succeeded) =>
        \E b \in billing_infos, old \in result.before.billing_infos :
            /\ b.pk = result.returned.pk
            /\ old.pk = result.returned.pk
            /\ \A f \in DOMAIN result.args.input : b[f] = result.args.input[f]
            /\ \A f \in BillingFields \ DOMAIN result.args.input : b[f] = old[f]


\* The global ID names a stored row of the type's table.
Resolves(global_id, type, table) ==
    LET r == from_global_id_or_error(global_id, type, TRUE)
    IN  ~r.raised /\ \E n \in table : n.pk = r.pk

\* C13: VendorAddAttachment called with the global ID of an existing vendor
\* and a file creates exactly one Attachment for that vendor with that file
\* and returns it; with an ID that does not resolve to a vendor it fails and
\* creates no Attachment.
C13_AttachmentAddedForVendor ==
    result.op = "VendorAddAttachment" =>
        IF Resolves(result.args.vendor_id, "Vendor", vendors)
        THEN /\ Succeeded
             /\ \E a \in attachments :
                   /\ a \notin result.before.attachments
                   /\ a.vendor = result.args.vendor_id[3]
                   /\ a.file = result.args.file
                   /\ attachments = result.before.attachments \cup {a}
                   /\ result.returned = a
        ELSE /\ ~Succeeded
             /\ attachments = result.before.attachments

\* C14: the logo (header image) of a vendor is replaced only when the URL was
\* vetted and the download succeeded; every failure to vet or fetch the
\* image (the HEAD request fails, the response has no Content-Type header,
\* the URL is not taken for an image, the download raises) ends in a
\* ValidationError keyed image_url with code INVALID_IMAGE_URL and leaves
\* both stored images of the vendor as they were.
C14_ImageFailuresReported ==
    (result.op \in {"VendorUpdateLogo", "VendorUpdateHeader"}
        /\ Resolves(result.args.id, "Vendor", vendors)) =>
        LET a == result.args
            vetted == is_image_url(a.image_url, a.head)
            failure == \/ a.head = "URLError"
                       \/ a.head = "no Content-Type"
                       \/ vetted.raised = "" /\ ~vetted.value
                       \/ a.download # "ok"
        IN  /\ vendor_images # result.before.vendor_images => ~failure
            /\ failure =>
                  /\ ResultReports("image_url", "INVALID_IMAGE_URL")
                  /\ vendor_images = result.before.vendor_images

\* The last call changed a catalogue: a VendorAddProduct or
\* VendorRemoveProduct that returned.
CatalogueCall ==
    result.op \in {"VendorAddProduct", "VendorRemoveProduct"} /\ Succeeded

\* What C17 says of one call.
C17_AfterCall ==
    CatalogueCall =>
        LET v == result.args.id[3]
            p == result.args.product_id[3]
            was == products_of(result.before.vendor_products, v)
            now == products_of(vendor_products, v)
        IN  /\ result.op = "VendorAddProduct" => (p \in now /\ now = was \cup {p})
            /\ result.op = "VendorRemoveProduct" => (p \notin now /\ now = was \ {p})
            /\ ((result.op = "VendorAddProduct") = (p \in was))
                  => vendor_products = result.before.vendor_products
            /\ Len(result.calls) = 1
            /\ result.calls[1].method = "product_updated"
            /\ result.calls[1].product = p
            /\ result.calls[1].vendor_products = vendor_products

\* What C17 says of a VendorRemoveProduct that follows the VendorAddProduct
\* of the same product to the same vendor.
C17_AddThenRemove ==
    (/\ result.op = "VendorAddProduct" /\ Succeeded
     /\ result'.op = "VendorRemoveProduct" /\ result'.error.kind = "none"
     /\ result'.args = result.args
     /\ result.args.product_id[3]
           \notin products_of(result.before.vendor_products, result.args.id[3]))
        => vendor_products' = result.before.vendor_products

C15_EmptyCommissionFieldsReported ==
    (result.op = "CommissionCreate"
        /\ Resolves(result.args.vendor_id, "Vendor", vendors)) =>
        LET input == result.args.input
            empty == {f \in CommissionChecked \cap DOMAIN input :
                         is_empty_string(f, input[f])}
        IN  IF empty # {}
            THEN /\ \A f \in empty : ResultReports(f, "COMMISSION_ERROR")
                 /\ commissions = result.before.commissions
            ELSE /\ Succeeded
                 /\ \E c \in commissions :
                       /\ c \notin result.before.commissions
                       /\ c.vendor = result.args.vendor_id[3]
                       /\ commissions = result.before.commissions \cup {c}

\* C16: TransactionAddUser called with the global ID of an existing
\* transaction as the schema emits it (node type VendorTransaction) and the
\* global ID of an existing user sets the transaction's user, saves it, and
\* leaves its vendor, payment, status and amount unchanged.
C16_TransactionUserSet ==
    (result.op = "TransactionAddUser"
        /\ Resolves(result.args.id, VendorTransaction, transactions)
        /\ Resolves(result.args.user_id, "User", Users)) =>
        /\ Succeeded
        /\ \E t \in transactions, old \in result.before.transactions :
              /\ t.pk = result.args.id[3]
              /\ old.pk = t.pk
              /\ t.user = result.args.user_id[3]
              /\ \A f \in {"vendor", "payment", "transaction_status", "price_amount"} :
                    t[f] = old[f]


\* C18: every call webhook(request, path, previous_value), for every path
\* and whatever previous_value is, sets request.app to the plugin instance
\* and returns the response of the GraphQL view built on the vendor schema
\* to that request.
C18_WebhookServesSchema ==
    result.op = "webhook" =>
        /\ result.returned.request.app = VendorPlugin
        /\ result.returned.request.query = result.args.request.query
        /\ result.returned.response
              = GraphQLView([result.args.request EXCEPT !.app = VendorPlugin])

\* A webhook call for a path other than the schema's, with a previous_value
\* that is a response already, has answered a vendors query with its rows.
C18_Witness ==
    /\ result.op = "webhook"
    /\ result.args.path = "other"
    /\ result.args.previous_value.status = 200
    /\ result.args.request.query.field = "vendors"
    /\ Len(result.returned.response.data) = 2

\* text contains value, letter case ignored.
ContainsIgnoringCase(text, value) ==
    \E i \in 0..(Len(text) - Len(value)) :
        \A j \in 1..Len(value) : Lower(text[i + j]) = Lower(value[j])

\* What C19 says of one search filter and the field it searches.
SearchReturnsMatches(op, field) ==
    result.op = op =>
        LET qs == result.args.qs
            value == result.args.value
            found == result.returned
        IN  IF Truthy(value)
            THEN /\ \A i \in 1..Len(qs) :
                        ContainsIgnoringCase(qs[i][field], value)
                            <=> \E j \in 1..Len(found) : found[j] = qs[i]
                 /\ \A j \in 1..Len(found) : \E i \in 1..Len(qs) : qs[i] = found[j]
                 /\ \A j, k \in 1..Len(found) : found[j] = found[k] => j = k
            ELSE found = qs

\* C19: filter_vendor_search (filter_transaction_search) with a non-empty
\* value returns exactly the vendors whose brand_name (the transactions
\* whose name) contains the value case-insensitively, each at most once; an
\* empty or missing value returns the queryset unchanged.
C19_SearchFiltersByContainment ==
    /\ SearchReturnsMatches("filter_vendor_search", "brand_name")
    /\ SearchReturnsMatches("filter_transaction_search", "name")

\* A search for "A" has found the vendor named "a" and the vendor named "A1".
C19_Witness ==
    /\ result.op = "filter_vendor_search"
    /\ result.args.value = <<"A">>
    /\ Len(result.returned) = 2
    /\ \E j \in 1..2 : result.returned[j].brand_name = <<"a">>

\* An ID that is not the global ID of a Vendor.
NotAVendorId(global_id) == global_id[1] # "b64" \/ global_id[2] # "Vendor"

\* C20: the vendors query with a non-empty ids returns only vendors whose
\* pk is among the decoded IDs (further narrowed by filter), with ids absent
\* or empty it returns all vendors (narrowed by filter), and an ID that is
\* not of type Vendor makes the query fail instead of being ignored.
C20_VendorsQueryById ==
    (result.op = "webhook" /\ result.args.request.query.field = "vendors") =>
        LET kwargs == result.args.request.query.kwargs
            response == result.returned.response
            ids == IF "ids" \in DOMAIN kwargs THEN kwargs.ids ELSE <<>>
            pks == {ids[i][3] : i \in 1..Len(ids)}
            wanted(row) ==
                /\ ids # <<>> => row.pk \in pks
                /\ ("filter" \in DOMAIN kwargs /\ "search" \in DOMAIN kwargs.filter
                       /\ kwargs.filter.search # <<>>)
                      => ContainsIgnoringCase(row.brand_name, kwargs.filter.search)
        IN  IF \E i \in 1..Len(ids) : NotAVendorId(ids[i])
            THEN response.errors.kind # "none" /\ response.data = <<>>
            ELSE /\ response.errors.kind = "none"
                 /\ response.data = SelectSeq(objects_all(vendors), wanted)

\* A vendors query that lists a vendor and a product has failed.
C20_Witness ==
    /\ result.op = "webhook"
    /\ result.args.request.query.field = "vendors"
    /\ "ids" \in DOMAIN result.args.request.query.kwargs
    /\ result.args.request.query.kwargs.ids
          = <<to_global_id("Vendor", 1), to_global_id("Product", 1)>>
    /\ result.returned.response.errors.kind = "dict"


\* The primary keys of the stored vendors.
VendorPks == {v.pk : v \in vendors}

\* Every row of the table references a stored vendor.
References(table) == \A r \in table : r.vendor \in VendorPks

ReferentialIntegrity ==
    /\ References(billing_infos)
    /\ References(attachments)
    /\ References(commissions)
    /\ \A t \in transactions : t.vendor = 0 \/ t.vendor \in VendorPks

\* A step that deletes vendors deletes the rows of the table that belong to
\* them and leaves the other rows of the table as they are.
DeletesWithVendor(before, after) ==
    (VendorPks' # VendorPks) =>
        after = {r \in before : r.vendor \notin VendorPks \ VendorPks'}

\* C21: in every reachable state every billing info, attachment and
\* commission references a stored vendor and every transaction references
\* no vendor or a stored one; and a step that deletes a vendor deletes
\* exactly that vendor's billing infos, attachments, transactions and
\* commissions.
C21_ReferentialIntegrity ==
    /\ []ReferentialIntegrity
    /\ [][/\ DeletesWithVendor(billing_infos, billing_infos')
          /\ DeletesWithVendor(attachments, attachments')
          /\ DeletesWithVendor(transactions, transactions')
          /\ DeletesWithVendor(commissions, commissions')]_vars

\* One vendor has been deleted after a billing info of its own had been
\* stored, and rows of the other vendor are still stored.
C21_Witness ==
    /\ Cardinality(vendors) = 1
    /\ \E b \in result.before.billing_infos : b.vendor \notin VendorPks
    /\ billing_infos # {}
    /\ attachments # {}
    /\ \E t \in transactions : t.vendor = 0

\* What the MIME type guessed from the URL says: an image type, or a type
\* that is not an image type.
GuessedImage(url) == guess_type(url) # None /\ guess_type(url)[1] \in ImageContentTypes
GuessedOther(url) == guess_type(url) # None /\ guess_type(url)[1] \notin ImageContentTypes

\* C22: is_image_url returns True only if the Content-Type of the HEAD
\* response contains "image" or the MIME type guessed from the URL is an
\* image type; for a response whose Content-Type is not an image and a URL
\* whose extension maps to a non-image MIME type it returns False.
C22_IsImageUrlDecides ==
    (result.op = "is_image_url" /\ Succeeded) =>
        LET a == result.args
        IN  /\ result.returned.value =>
                  (a.head \in ImageContentTypes \/ GuessedImage(a.image_url))
            /\ (a.head \notin ImageContentTypes /\ GuessedOther(a.image_url)) =>
                  ~result.returned.value

\* The error map of VendorCreate.clean_input holds the entry for the field.
Recorded(c, field, code) ==
    /\ field \in DOMAIN req[c].error.accumulated
    /\ req[c].error.accumulated[field].code = code

\* C23: for every phone_number that is not a valid phone number, whether it
\* does not parse or parses and is not valid, VendorCreate's error map gets
\* an entry keyed phone_number with code INVALID_PHONE_NUMBER and no vendor
\* is stored.
C23_InvalidPhoneNumberRejected ==
    \A c \in Creates :
        req[c].data.phone_number \notin ValidPhones =>
            /\ req[c].pc = "failed"
            /\ Recorded(c, "phone_number", "INVALID_PHONE_NUMBER")

\* The code VendorErrorCode has for an empty name field.
OwnCode(field) ==
    CASE field = "brand_name" -> "INVALID_BRAND_NAME"
      [] field = "first_name" -> "INVALID_FIRST_NAME"
      [] field = "last_name" -> "INVALID_LAST_NAME"
      [] field = "registration_number" -> "INVALID_REGISTRATION_NUMBER"

\* C24: every error VendorCreate.clean_input records for an empty name
\* field is one validation error with the field's own code, stored under the
\* field's key in the same shape for brand_name, first_name, last_name and
\* registration_number.
C24_EmptyNameErrorsAlike ==
    \A c \in Creates :
        \A f \in EmptyNames(req[c].data) \cap DOMAIN req[c].error.accumulated :
            req[c].error.accumulated[f] = Err(OwnCode(f))

\* The commission the last call named, as it is stored now and as it was
\* stored before the call, agree in every column but the category.
CommissionKept(c, old) ==
    /\ old.pk = c.pk
    /\ \A f \in {"vendor", "name", "type", "currency", "price_amount"} : c[f] = old[f]

\* C25: after CommissionAddCategory(c, k) the commission's category is k and
\* its category field resolves to the global ID of k; after
\* CommissionRemoveCategory(c) the category is null and the category field
\* resolves to null without error; both leave the commission's vendor, name,
\* type, currency and price_amount unchanged.
C25_CategoryRoundTrips ==
    /\ (result.op = "CommissionAddCategory"
          /\ Resolves(result.args.id, "Commission", commissions)
          /\ Resolves(result.args.category_id, "Category", Categories)) =>
          /\ Succeeded
          /\ \E c \in commissions, old \in result.before.commissions :
                /\ c.pk = result.args.id[3]
                /\ c.category = result.args.category_id[3]
                /\ CommissionKept(c, old)
          /\ result.returned.category = [raised |-> "", value |-> result.args.category_id]
    /\ (result.op = "CommissionRemoveCategory"
          /\ Resolves(result.args.id, "Commission", commissions)) =>
          /\ Succeeded
          /\ \E c \in commissions, old \in result.before.commissions :
                /\ c.pk = result.args.id[3]
                /\ c.category = 0
                /\ CommissionKept(c, old)
          /\ result.returned.category = [raised |-> "", value |-> None]

\* The day a digit of a created_at value stands for.
DayOf(digit) == CHOOSE d \in 1..Len(DateDigits) : DateDigits[d] = digit

\* The value is "start,end" for two dates.
IsDateRange(value) ==
    /\ Len(value) = 3
    /\ value[2] = ","
    /\ \A i \in {1, 3} : \E d \in 1..Len(DateDigits) : value[i] = DateDigits[d]

\* The value splits at its commas into exactly two parts.
HasTwoParts(value) == Cardinality({i \in 1..Len(value) : value[i] = ","}) = 1

\* The rows of the queryset, in its order, created from start to end.
CreatedWithin(qs, start, end) ==
    LET kept == {i \in 1..Len(qs) : start <= qs[i].created_at /\ qs[i].created_at <= end}
    IN  [k \in 1..Cardinality(kept) |->
            qs[CHOOSE i \in kept : Cardinality({j \in kept : j < i}) = k - 1]]

\* C26: for a value "start,end" filter_transaction_date_range returns exactly
\* the transactions of the queryset whose created_at lies in [start, end],
\* both ends included; a value that does not split into exactly two
\* comma-separated parts ends in an input error, not in an exception that
\* leaves the query unhandled.
C26_DateRangeFilter ==
    result.op = "filter_transaction_date_range" =>
        LET value == result.args.value
        IN  /\ IsDateRange(value) =>
                  /\ Succeeded
                  /\ result.returned
                        = CreatedWithin(result.args.qs, DayOf(value[1]), DayOf(value[3]))
            /\ ~HasTwoParts(value) => result.error.kind = "dict"
====
